---------------------------- MODULE Spec2Model ----------------------------
(***************************************************************************)
(* Model of the supersonic UI layer: the GridViewPage search / reload /    *)
(* save / restore lifecycle (ui/browsing/gridviewpage.go) and the          *)
(* GridViewItem / coverImage widget (ui/widgets/gridviewitem.go), and the  *)
(* main window's connection, logout and update-check wiring.               *)
(*                                                                         *)
(* Go pointers are modelled as sequences of length 0 (nil) or 1 (a pointer *)
(* to the value held).  Handlers are operators over a "world" record so    *)
(* that the order of the calls a handler makes is the order of the LET     *)
(* steps; every call on a collaborator is appended to the world's trace.   *)
(***************************************************************************)
EXTENDS Integers, Sequences, FiniteSets, TLC

VARIABLES page, saved, grids, pool, others, adapterSort, lastOp, hist,
          item, pointer, lastEv,
          mw,
          loads,
          player

pageVars == <<page, saved, grids, pool, others, adapterSort, lastOp, hist>>
itemVars == <<item, pointer, lastEv>>
mainVars == <<mw>>
gridVars == <<loads>>
trayVars == <<player>>
\* What a page step, an item step, a main window step, a grid step and a step
\* of the tray menu leave alone.
offPage == <<itemVars, mainVars, gridVars, trayVars>>
offItem == <<pageVars, mainVars, gridVars, trayVars>>
offMain == <<pageVars, itemVars, gridVars, trayVars>>
offGrid == <<pageVars, mainVars, pointer, trayVars>>
offTray == <<pageVars, itemVars, mainVars, gridVars>>

\* ------------------------------------------------------------------ bounds
MaxScroll == 1
MaxOthers == 1

\* ---------------------------------------------------------------- pointers
Nil == <<>>
Ptr(v) == <<v>>
Deref(p) == p[1]

\* ------------------------------------------------------------ input domains
\* Sort orders offered by a sortable adapter (SortOrders()).
SortOrders == {"A-Z", "Recently Added"}
\* Non-empty search queries typed into the search entry.
Queries == {"moon", "sun"}

\* mediaprovider.AlbumFilter values: the zero value, and a base genre filter.
ZeroFilter == [Genres |-> 0, Favorites |-> FALSE]
GenreFilter == [Genres |-> 1, Favorites |-> FALSE]

\* The adapters pages are constructed with: whether the adapter also
\* implements SortableGridViewPageAdapter, and what Filter() returns.
Adapters ==
    { [name |-> "albums",  sortable |-> TRUE,  filter |-> Ptr(ZeroFilter)],
      [name |-> "artists", sortable |-> TRUE,  filter |-> Nil],
      [name |-> "genre",   sortable |-> FALSE, filter |-> Ptr(GenreFilter)] }
AdapterNames == {a.name : a \in Adapters}
AdapterOf(n) == CHOOSE a \in Adapters : a.name = n

\* ------------------------------------------------------------------- events
Ev(ev, g, arg, flt, st) ==
    [ev |-> ev, grid |-> g, arg |-> arg, filter |-> flt, state |-> st]
Emit(w, e) == [w EXCEPT !.trace = Append(@, e)]

\* ----------------------------------------------------------------- GridView
\* The content of a grid: the iterator request it was reset with and how far
\* the user has scrolled / loaded.  A GridViewState is a copy of the content.
IterReq(kind, arg, flt) == [kind |-> kind, arg |-> arg, filter |-> flt]
Content(req) == <<[iter |-> req, scroll |-> 0]>>

GridReset(w, g, req) ==
    Emit([w EXCEPT !.grids[g] = Content(req)], Ev("Reset", g, req.arg, Ptr(req.filter), Nil))

GridStateOf(w, g) == Ptr(w.grids[g])

GridSaveToState(w, g) == Emit(w, Ev("SaveToState", g, "", Nil, GridStateOf(w, g)))

GridResetFromState(w, g, st) ==
    Emit([w EXCEPT !.grids[g] = IF st = Nil THEN <<>> ELSE Deref(st)],
         Ev("ResetFromState", g, "", Nil, st))

GridClear(w, g) == Emit([w EXCEPT !.grids[g] = <<>>], Ev("Clear", g, "", Nil, Nil))

NewGridView(w, req) ==
    Emit([w EXCEPT !.grids = Append(@, Content(req))],
         Ev("NewGridView", Len(w.grids) + 1, req.arg, Ptr(req.filter), Nil))

NewGridViewFromState(w, st) ==
    Emit([w EXCEPT !.grids = Append(@, IF st = Nil THEN <<>> ELSE Deref(st))],
         Ev("NewGridViewFromState", Len(w.grids) + 1, "", Nil, st))

\* --------------------------------------------------------------- WidgetPool
\* Obtain returns one of the pooled grids, or nil (0) when the pool is empty.
ObtainResults(pl) == IF pl = {} THEN {0} ELSE pl
PoolObtain(w, ob) ==
    Emit([w EXCEPT !.pool = @ \ {ob}], Ev("Obtain", ob, "", Nil, Nil))
PoolRelease(w, g) ==
    Emit([w EXCEPT !.pool = @ \cup {g}], Ev("Release", g, "", Nil, Nil))

\* ------------------------------------------------------------------ adapter
AdapterIter(w, sortOrder, flt) ==
    Emit(w, Ev("Iter", 0, sortOrder, Ptr(flt), Nil))
AdapterSearchIter(w, query, flt) ==
    Emit(w, Ev("SearchIter", 0, query, Ptr(flt), Nil))
AdapterSaveSortOrder(w, order) ==
    Emit([w EXCEPT !.adapterSort = order], Ev("SaveSortOrder", 0, order, Nil, Nil))

\* ------------------------------------------------------------- GridViewPage
NoPage ==
    [status |-> "none", adapter |-> "", grid |-> 0,
     gridState |-> Nil, searchGridState |-> Nil,
     sortOrder |-> Nil, filterBtn |-> Nil, filter |-> Nil,
     searcherText |-> "", searchText |-> ""]

getFilter(pg) == IF pg.filter # Nil THEN Deref(pg.filter) ELSE ZeroFilter

getSortOrder(pg) == IF pg.sortOrder # Nil THEN Deref(pg.sortOrder).Selected ELSE ""

createTitleAndSort(w) ==
    LET a == w.page.adapter IN
    IF AdapterOf(a).sortable
    THEN [w EXCEPT !.page.sortOrder =
              Ptr([Selected |-> w.adapterSort, disabled |-> FALSE])]
    ELSE w


\* Faulty variant: a zero-valued filter is treated like a nil one.
createSearchAndFilterZeroAsNil(w) ==
    LET pg == w.page
        w1 == [w EXCEPT !.page.searcherText = pg.searchText]
    IN  IF pg.filter # Nil /\ Deref(pg.filter) # ZeroFilter
        THEN LET disableGenres == Deref(pg.filter).Genres > 0 IN
             [w1 EXCEPT !.page.filterBtn = Ptr([GenreDisabled |-> disableGenres])]
        ELSE w1

createSearchAndFilter(w) ==
    LET pg == w.page
        w1 == [w EXCEPT !.page.searcherText = pg.searchText]
    IN  IF pg.filter # Nil
        THEN LET disableGenres == Deref(pg.filter).Genres > 0 IN
             [w1 EXCEPT !.page.filterBtn = Ptr([GenreDisabled |-> disableGenres])]
        ELSE w1

NewGridViewPage(w, a, ob) ==
    LET w0 == [w EXCEPT !.page =
                   [NoPage EXCEPT !.status = "live", !.adapter = a,
                                  !.filter = AdapterOf(a).filter]]
        w1 == createTitleAndSort(w0)
        so == getSortOrder(w1.page)
        fl == getFilter(w1.page)
        w2 == AdapterIter(w1, so, fl)
        req == IterReq("Iter", so, fl)
        w3 == PoolObtain(w2, ob)
        w4 == IF ob # 0
              THEN GridReset([w3 EXCEPT !.page.grid = ob], ob, req)
              ELSE NewGridView([w3 EXCEPT !.page.grid = Len(w3.grids) + 1], req)
    IN  createSearchAndFilter(w4)


\* Faulty variant: the snapshot is taken on every search, the searchText guard dropped.
doSearchSnapshotAlways(w, query) ==
    LET pg == w.page
        w1 == [GridSaveToState(w, pg.grid) EXCEPT
                   !.page.gridState = GridStateOf(w, pg.grid)]
        fl == getFilter(pg)
        w2 == AdapterSearchIter(w1, query, fl)
    IN  GridReset(w2, pg.grid, IterReq("SearchIter", query, fl))

doSearch(w, query) ==
    LET pg == w.page
        w1 == IF pg.searchText = ""
              THEN [GridSaveToState(w, pg.grid) EXCEPT
                        !.page.gridState = GridStateOf(w, pg.grid)]
              ELSE w
        fl == getFilter(pg)
        w2 == AdapterSearchIter(w1, query, fl)
    IN  GridReset(w2, pg.grid, IterReq("SearchIter", query, fl))

\* Faulty variant: the search text is ignored, the browsing iterator always re-issued.
ReloadBrowseOnly(w) ==
    LET pg == w.page
        so == getSortOrder(pg)
        fl == getFilter(pg)
    IN  GridReset(AdapterIter(w, so, fl), pg.grid, IterReq("Iter", so, fl))

Reload(w) ==
    LET pg == w.page IN
    IF pg.searchText # ""
    THEN doSearch(w, pg.searchText)
    ELSE LET so == getSortOrder(pg)
             fl == getFilter(pg)
         IN  GridReset(AdapterIter(w, so, fl), pg.grid, IterReq("Iter", so, fl))

\* sortOrder.Enable() / sortOrder.Disable(), behind the nil check of the caller.
SetDisabled(w, d) ==
    IF w.page.sortOrder # Nil
    THEN [w EXCEPT !.page.sortOrder = Ptr([Deref(@) EXCEPT !.disabled = d])]
    ELSE w


\* Faulty variant: clearing the query fetches the browsing iterator again.
OnSearchedRefetch(w, query) ==
    LET w2 == IF query = ""
              THEN LET w0 == SetDisabled(w, FALSE)
                       so == getSortOrder(w0.page)
                       fl == getFilter(w0.page)
                       w1 == GridReset(AdapterIter(w0, so, fl), w0.page.grid,
                                       IterReq("Iter", so, fl))
                   IN  [w1 EXCEPT !.page.searchGridState = Nil]
              ELSE doSearch(SetDisabled(w, TRUE), query)
    IN  [w2 EXCEPT !.page.searchText = query]

\* Faulty variant: clearing the query does not enable the sort selector again.
OnSearchedNoEnable(w, query) ==
    LET w2 == IF query = ""
              THEN LET w1 == GridResetFromState(w, w.page.grid, w.page.gridState)
                   IN  [w1 EXCEPT !.page.searchGridState = Nil]
              ELSE doSearch(SetDisabled(w, TRUE), query)
    IN  [w2 EXCEPT !.page.searchText = query]

\* Faulty variant: clearing the search keeps searchGridState.
OnSearchedKeepSearchState(w, query) ==
    LET w2 == IF query = ""
              THEN GridResetFromState(SetDisabled(w, FALSE),
                                      w.page.grid, w.page.gridState)
              ELSE doSearch(SetDisabled(w, TRUE), query)
    IN  [w2 EXCEPT !.page.searchText = query]

OnSearched(w, query) ==
    LET w2 == IF query = ""
              THEN LET w1 == GridResetFromState(SetDisabled(w, FALSE),
                                                w.page.grid, w.page.gridState)
                   IN  [w1 EXCEPT !.page.searchGridState = Nil]
              ELSE doSearch(SetDisabled(w, TRUE), query)
    IN  [w2 EXCEPT !.page.searchText = query]


\* Faulty variant: the grid is reloaded before the order is persisted.
onSortOrderChangedReloadFirst(w, order) ==
    LET pg == w.page
        so == getSortOrder(pg)
        fl == getFilter(pg)
        w1 == GridReset(AdapterIter(w, so, fl), pg.grid, IterReq("Iter", so, fl))
    IN  AdapterSaveSortOrder(w1, getSortOrder(pg))

\* widget.Select has set Selected to the chosen option before it calls OnChanged.
onSortOrderChanged(w, order) ==
    LET pg == w.page
        w1 == AdapterSaveSortOrder(w, getSortOrder(pg))
        so == getSortOrder(pg)
        fl == getFilter(pg)
    IN  GridReset(AdapterIter(w1, so, fl), pg.grid, IterReq("Iter", so, fl))


\* Faulty variant: the grid is cleared before its state is captured.
SaveClearFirst(w) ==
    LET pg == w.page
        sa == [adapter |-> pg.adapter, searchText |-> pg.searchText,
               filter |-> pg.filter, sortOrder |-> getSortOrder(pg),
               gridState |-> pg.gridState, searchGridState |-> pg.searchGridState]
        w1 == GridClear(w, pg.grid)
        w2 == GridSaveToState(w1, pg.grid)
        st == GridStateOf(w1, pg.grid)
        sa2 == IF pg.searchText = ""
               THEN [sa EXCEPT !.gridState = st]
               ELSE [sa EXCEPT !.searchGridState = st]
        w3 == PoolRelease(w2, pg.grid)
    IN  [w3 EXCEPT !.saved = Ptr(sa2), !.page.status = "saved"]

Save(w) ==
    LET pg == w.page
        sa == [adapter |-> pg.adapter, searchText |-> pg.searchText,
               filter |-> pg.filter, sortOrder |-> getSortOrder(pg),
               gridState |-> pg.gridState, searchGridState |-> pg.searchGridState]
        w1 == GridSaveToState(w, pg.grid)
        st == GridStateOf(w, pg.grid)
        sa2 == IF pg.searchText = ""
               THEN [sa EXCEPT !.gridState = st]
               ELSE [sa EXCEPT !.searchGridState = st]
        w2 == GridClear(w1, pg.grid)
        w3 == PoolRelease(w2, pg.grid)
    IN  [w3 EXCEPT !.saved = Ptr(sa2), !.page.status = "saved"]


\* Faulty variant: the grid is always repopulated from the browsing state.
RestoreBrowseState(w, ob) ==
    LET s == Deref(w.saved)
        w0 == [w EXCEPT !.page =
                   [NoPage EXCEPT !.status = "live", !.adapter = s.adapter,
                                  !.gridState = s.gridState,
                                  !.searchGridState = s.searchGridState,
                                  !.searchText = s.searchText,
                                  !.filter = s.filter]]
        w1 == createTitleAndSort(w0)
        w2 == IF s.searchText # "" THEN SetDisabled(w1, TRUE) ELSE w1
        state == s.gridState
        w3 == PoolObtain(w2, ob)
        w4 == IF ob # 0
              THEN GridResetFromState([w3 EXCEPT !.page.grid = ob], ob, state)
              ELSE NewGridViewFromState(
                       [w3 EXCEPT !.page.grid = Len(w3.grids) + 1], state)
    IN  createSearchAndFilter(w4)

Restore(w, ob) ==
    LET s == Deref(w.saved)
        w0 == [w EXCEPT !.page =
                   [NoPage EXCEPT !.status = "live", !.adapter = s.adapter,
                                  !.gridState = s.gridState,
                                  !.searchGridState = s.searchGridState,
                                  !.searchText = s.searchText,
                                  !.filter = s.filter]]
        w1 == createTitleAndSort(w0)
        w2 == IF s.searchText # "" THEN SetDisabled(w1, TRUE) ELSE w1
        state == IF s.searchText # "" THEN s.searchGridState ELSE s.gridState
        w3 == PoolObtain(w2, ob)
        w4 == IF ob # 0
              THEN GridResetFromState([w3 EXCEPT !.page.grid = ob], ob, state)
              ELSE NewGridViewFromState(
                       [w3 EXCEPT !.page.grid = Len(w3.grids) + 1], state)
    IN  createSearchAndFilter(w4)

\* ------------------------------------------------------------ state machine
\* page:   the GridViewPage object (after Save: the detached object, status "saved")
\* saved:  the savedGridViewPage held for the page while it is detached
\* grids:  the GridView widgets allocated so far, by index
\* pool:   the grids in the WidgetPool;  others: the grids other pages hold
\* adapterSort: the sort order the page's adapter has persisted (SortOrders())
\* lastOp: the last handler run (a handler's calls are the trace of its world)
\* hist:   what Save() would have recorded just before the current search began
World ==
    [page |-> page, saved |-> saved, grids |-> grids, pool |-> pool,
     adapterSort |-> adapterSort, trace |-> <<>>]

Op(op, arg, prev) == [op |-> op, arg |-> arg, prev |-> prev]

\* What Save() would record now for the fields that do not hold search state.
SaveView(w) ==
    LET pg == w.page IN
    [gridState |-> GridStateOf(w, pg.grid), sortOrder |-> getSortOrder(pg),
     filter |-> pg.filter, searchText |-> pg.searchText]

NoHist == [pre |-> Nil, clean |-> FALSE]

Commit(w, op, h) ==
    /\ page' = w.page
    /\ saved' = w.saved
    /\ grids' = w.grids
    /\ pool' = w.pool
    /\ adapterSort' = w.adapterSort
    /\ lastOp' = op
    /\ hist' = h
    /\ UNCHANGED <<others, offPage>>

Live == page.status = "live"

\* The history of a search ends with the first operation after it was cleared.
KeepHist == IF page.searchText # "" THEN hist ELSE NoHist

PageInit ==
    /\ page = NoPage
    /\ saved = Nil
    /\ grids = <<>>
    /\ pool = {}
    /\ others = {}
    /\ adapterSort \in SortOrders
    /\ lastOp = Op("init", "", "")
    /\ hist = NoHist

DoNew ==
    /\ page.status = "none"
    /\ \E a \in AdapterNames, ob \in ObtainResults(pool) :
           Commit(NewGridViewPage(World, a, ob),
                  Op("New", IF ob # 0 THEN "pool" ELSE "new", ""), NoHist)

DoReload ==
    /\ Live
    /\ Commit(Reload(World), Op("Reload", "", page.searchText), KeepHist)

\* The search entry holds the text the user typed when it calls OnSearched.
DoOnSearched ==
    /\ Live
    /\ \E q \in Queries \cup {""} :
           LET w == [World EXCEPT !.page.searcherText = q] IN
           Commit(OnSearched(w, q), Op("OnSearched", q, page.searchText),
                  IF q # "" /\ page.searchText = ""
                  THEN [pre |-> Ptr(SaveView(World)), clean |-> TRUE]
                  ELSE KeepHist)

\* The user picks an option of the sort selector (only an enabled widget.Select
\* reacts): Select sets Selected, then calls OnChanged.
DoSortOrderChanged ==
    /\ Live
    /\ page.sortOrder # Nil
    /\ ~Deref(page.sortOrder).disabled
    /\ \E order \in SortOrders :
           LET w == [World EXCEPT !.page.sortOrder =
                         Ptr([Deref(@) EXCEPT !.Selected = order])]
           IN  Commit(onSortOrderChanged(w, order), Op("SortOrderChanged", order, ""),
                      NoHist)

\* The user toggles the favourites predicate in the filter button's dialog: the
\* button writes the shared *AlbumFilter, then calls OnChanged = Reload.
DoFilterChanged ==
    /\ Live
    /\ page.filterBtn # Nil
    /\ LET w == [World EXCEPT !.page.filter =
                     Ptr([Deref(@) EXCEPT !.Favorites = ~@])]
       IN  Commit(Reload(w), Op("FilterChanged", "", page.searchText), NoHist)

\* The user scrolls the grid of the live page (more items load).
DoScroll ==
    /\ Live
    /\ LET g == page.grid IN
       /\ grids[g] # <<>>
       /\ grids[g][1].scroll < MaxScroll
       /\ Commit([World EXCEPT !.grids[g][1].scroll = @ + 1],
                 Op("Scroll", "", ""), KeepHist)

DoSave ==
    /\ Live
    /\ Commit(Save(World), Op("Save", "", page.searchText), NoHist)

\* Restore consumes the saved page held for the detached page.
DoRestore ==
    /\ page.status = "saved"
    /\ \E ob \in ObtainResults(pool) :
           Commit([Restore(World, ob) EXCEPT !.saved = Nil],
                  Op("Restore", IF ob # 0 THEN "pool" ELSE "new", ""), NoHist)

\* Another page sharing the pool is constructed or restored: it obtains a
\* pooled grid, or allocates one when the pool is empty.
OtherPageObtain ==
    /\ Cardinality(others) < MaxOthers
    /\ \E ob \in ObtainResults(pool) :
           /\ IF ob # 0
              THEN /\ pool' = pool \ {ob}
                   /\ others' = others \cup {ob}
                   /\ grids' = grids
              ELSE /\ grids' = Append(grids, <<>>)
                   /\ others' = others \cup {Len(grids) + 1}
                   /\ pool' = pool
    /\ lastOp' = Op("OtherObtain", "", "")
    /\ hist' = KeepHist
    /\ UNCHANGED <<page, saved, adapterSort, offPage>>

\* Another page sharing the pool is saved: it clears and releases its grid.
OtherPageRelease ==
    /\ \E g \in others :
           /\ others' = others \ {g}
           /\ pool' = pool \cup {g}
           /\ grids' = [grids EXCEPT ![g] = <<>>]
    /\ lastOp' = Op("OtherRelease", "", "")
    /\ hist' = KeepHist
    /\ UNCHANGED <<page, saved, adapterSort, offPage>>

\* Another page built on the same adapter changes the sort order while this
\* page is saved: its onSortOrderChanged persists the order through the adapter.
OtherPageSortOrderChanged ==
    /\ page.status = "saved"
    /\ AdapterOf(page.adapter).sortable
    /\ others # {}
    /\ \E order \in SortOrders \ {adapterSort} : adapterSort' = order
    /\ lastOp' = Op("OtherSortOrderChanged", "", "")
    /\ hist' = KeepHist
    /\ UNCHANGED <<page, saved, grids, pool, others, offPage>>

\* Save leaves the detached page object as it was: g.grid still refers to the
\* released grid, and the object's search entry and filter button still call
\* OnSearched and Reload on it.  These are the calls that arrive after Save.
DoReloadSaved ==
    /\ page.status = "saved"
    /\ Commit(Reload(World), Op("ReloadSaved", "", page.searchText), hist)

DoOnSearchedSaved ==
    /\ page.status = "saved"
    /\ \E q \in Queries \cup {""} :
           LET w == [World EXCEPT !.page.searcherText = q] IN
           Commit(OnSearched(w, q), Op("OnSearchedSaved", q, page.searchText), hist)

\* Pages are constructed, searched, saved and restored over one pool, and a
\* saved page object is still called.
PoolNext ==
    \/ DoNew
    \/ DoOnSearched
    \/ DoSave
    \/ DoRestore
    \/ OtherPageObtain
    \/ OtherPageRelease
    \/ DoReloadSaved
    \/ DoOnSearchedSaved

PageNext ==
    \/ DoNew
    \/ DoReload
    \/ DoOnSearched
    \/ DoSortOrderChanged
    \/ DoFilterChanged
    \/ DoScroll
    \/ DoSave
    \/ DoRestore
    \/ OtherPageObtain
    \/ OtherPageRelease
    \/ OtherPageSortOrderChanged

\* ============================================================ GridViewItem
\* Positions are in half pixels, so that the hovered radius 32.5 is an integer;
\* the squares compared by isInside are then exact, as they are in float32.
playBtnSize == 60
playBtnHoveredSize == 65
CoverSize == 200

HalfPx(px) == 2 * px

\* The offsets from the centre (in half pixels) the pointer events are drawn
\* from: the centre, on and just outside each radius, between the two radii.
Offsets ==
    { <<0, 0>>, <<59, 0>>, <<60, 0>>, <<61, 0>>, <<65, 0>>, <<66, 0>>, <<0, -61>>,
      <<36, 48>>, <<25, 60>>, <<-25, -60>>, <<37, 48>>, <<48, 48>> }

center == [X |-> HalfPx(CoverSize) \div 2, Y |-> HalfPx(CoverSize) \div 2]
Points == {[X |-> center.X + d[1], Y |-> center.Y + d[2]] : d \in Offsets}

\* size.Height / 2, for a size in pixels.
HalfHeight(size) == HalfPx(size) \div 2


\* Faulty variant: a strict comparison, the boundary falls outside.
isInsideStrict(origin, radius, point) ==
    LET x == point.X - origin.X
        y == point.Y - origin.Y
    IN  x * x + y * y < radius * radius

isInside(origin, radius, point) ==
    LET x == point.X - origin.X
        y == point.Y - origin.Y
    IN  x * x + y * y <= radius * radius

\* The callbacks a handler invokes, in order: a nil callback is not invoked.
Invoke(c, name) == IF name \in c.callbacks THEN <<name>> ELSE <<>>

\* Faulty variant: no return after OnPlay, the tap falls through to OnShowPage.
TappedNoReturn(c, pt) ==
    (IF isInside(center, HalfHeight(c.playbtnSize), pt)
     THEN Invoke(c, "OnPlay") ELSE <<>>) \o Invoke(c, "OnShowPage")

\* coverImage.Tapped: the callbacks it invokes.
Tapped(c, pt) ==
    IF isInside(center, HalfHeight(c.playbtnSize), pt)
    THEN Invoke(c, "OnPlay")
    ELSE Invoke(c, "OnShowPage")

TappedSecondary(c, pt) == Invoke(c, "OnShowContextMenu")

MouseIn(c) == [c EXCEPT !.playbtnHidden = FALSE]

MouseOut(c) == [c EXCEPT !.mouseInsideBtn = FALSE, !.playbtnHidden = TRUE]

MouseMoved(c, pt) ==
    IF isInside(center, HalfHeight(c.playbtnMinSize), pt)
    THEN [c EXCEPT !.playbtnMinSize = IF ~c.mouseInsideBtn THEN playBtnHoveredSize ELSE @,
                   !.mouseInsideBtn = TRUE]
    ELSE [c EXCEPT !.playbtnMinSize = IF c.mouseInsideBtn THEN playBtnSize ELSE @,
                   !.mouseInsideBtn = FALSE]

SetImage(c, im) == [c EXCEPT !.image = im]

ResetPlayButton(c) ==
    [c EXCEPT !.playbtnMinSize = playBtnSize, !.mouseInsideBtn = FALSE,
              !.playbtnHidden = TRUE]

\* GridViewItemModel values the grid hands to its items.
Models ==
    [Name : {"n1", "n2"}, ID : {"a", "b"}, CoverArtID : {"c1", "c2"},
     Secondary : {"s1", "s2"}, SecondaryID : {"", "x"}]
NoModel == [Name |-> "", ID |-> "", CoverArtID |-> "", Secondary |-> "", SecondaryID |-> ""]


\* Faulty variant: the identity is the ID alone.
NeedsUpdateIDOnly(g, model) == g.itemID # model.ID

NeedsUpdate(g, model) == g.itemID # model.ID \/ g.secondaryID # model.SecondaryID

\* Faulty variant: a model with the item's identity is not applied.
UpdateIfNeeded(g, model) ==
    IF g.itemID # model.ID \/ g.secondaryID # model.SecondaryID
    THEN [g EXCEPT !.itemID = model.ID,
                   !.secondaryID = model.SecondaryID,
                   !.primaryText = model.Name,
                   !.secondaryDisabled = (model.SecondaryID = ""),
                   !.secondaryText = model.Secondary,
                   !.Cover = [@ EXCEPT !.playbtnMinSize = playBtnSize,
                                       !.mouseInsideBtn = FALSE,
                                       !.playbtnHidden = TRUE]]
    ELSE g

Update(g, model) ==
    [g EXCEPT !.itemID = model.ID,
              !.secondaryID = model.SecondaryID,
              !.primaryText = model.Name,
              !.secondaryDisabled = (model.SecondaryID = ""),
              !.secondaryText = model.Secondary,
              !.Cover = ResetPlayButton(@)]

\* An image as the cover shows it: the identity and the cover art it was
\* loaded for; NoImage is the placeholder.
NoImage == [id |-> <<"", "">>, cover |-> ""]

\* NewGridViewItem / newCoverImage, the play button laid out at its minimum
\* size; NewGridViewItem sets the three callbacks of the cover.
NewGridViewItem ==
    [itemID |-> "", secondaryID |-> "", primaryText |-> "", secondaryText |-> "",
     secondaryDisabled |-> FALSE,
     Cover |-> [playbtnMinSize |-> playBtnSize, playbtnSize |-> playBtnSize,
                playbtnHidden |-> TRUE, mouseInsideBtn |-> FALSE,
                callbacks |-> {"OnPlay", "OnShowPage", "OnShowContextMenu"},
                image |-> NoImage],
     ImgLoadCancel |-> Nil]

\* item:    the GridViewItem with its coverImage
\* pointer: whether the pointer is over the cover (MouseIn seen, MouseOut not yet)
\* lastEv:  the last event handled, the point it carried, the callbacks invoked,
\*          the model it applied and what NeedsUpdate said of it beforehand
ItemEv(op, pt, cb, m) == [op |-> op, pt |-> pt, cb |-> cb, model |-> m, needed |-> TRUE]

ItemInit ==
    /\ item = NewGridViewItem
    /\ pointer = FALSE
    /\ lastEv = ItemEv("init", center, <<>>, NoModel)

ItemIdle == ItemInit
PageIdle ==
    /\ page = NoPage
    /\ saved = Nil
    /\ grids = <<>>
    /\ pool = {}
    /\ others = {}
    /\ adapterSort = "A-Z"
    /\ lastOp = Op("init", "", "")
    /\ hist = NoHist

DoMouseIn ==
    /\ ~pointer
    /\ pointer' = TRUE
    /\ item' = [item EXCEPT !.Cover = MouseIn(@)]
    /\ lastEv' = ItemEv("MouseIn", center, <<>>, NoModel)
    /\ UNCHANGED offItem

DoMouseOut ==
    /\ pointer
    /\ pointer' = FALSE
    /\ item' = [item EXCEPT !.Cover = MouseOut(@)]
    /\ lastEv' = ItemEv("MouseOut", center, <<>>, NoModel)
    /\ UNCHANGED offItem

DoMouseMoved ==
    /\ pointer
    /\ \E pt \in Points :
           /\ item' = [item EXCEPT !.Cover = MouseMoved(@, pt)]
           /\ lastEv' = ItemEv("MouseMoved", pt, <<>>, NoModel)
    /\ UNCHANGED <<pointer, offItem>>

DoTapped ==
    /\ \E pt \in Points :
           lastEv' = ItemEv("Tapped", pt, Tapped(item.Cover, pt), NoModel)
    /\ UNCHANGED <<item, pointer, offItem>>

DoTappedSecondary ==
    /\ \E pt \in Points :
           lastEv' = ItemEv("TappedSecondary", pt, TappedSecondary(item.Cover, pt), NoModel)
    /\ UNCHANGED <<item, pointer, offItem>>

\* The toolkit lays the centred play button out again: its size follows the
\* minimum size set by SetMinSize.
DoLayout ==
    /\ item.Cover.playbtnSize # item.Cover.playbtnMinSize
    /\ item' = [item EXCEPT !.Cover.playbtnSize = item.Cover.playbtnMinSize]
    /\ lastEv' = ItemEv("Layout", center, <<>>, NoModel)
    /\ UNCHANGED <<pointer, offItem>>

\* The grid binds a model to the item.
DoUpdate ==
    /\ \E m \in Models :
           /\ item' = Update(item, m)
           /\ lastEv' = [ItemEv("Update", center, <<>>, m)
                             EXCEPT !.needed = NeedsUpdate(item, m)]
    /\ UNCHANGED <<pointer, offItem>>

ItemNext ==
    \/ DoMouseIn
    \/ DoMouseOut
    \/ DoMouseMoved
    \/ DoTapped
    \/ DoTappedSecondary
    \/ DoLayout
    \/ DoUpdate

\* ================================================ GridView and its images
\* loads: the image loads started for the item, in order; a load is known by
\* its index, which is also what its cancellation handle refers to. A load is
\* "running", "cancelled", and in the end "done" (delivered) or "dropped".
MaxLoads == 2

GridWorld == [item |-> item, loads |-> loads]

\* ImageManager: the asynchronous fetch of a model's cover, and its handle.
StartLoad(w, model) ==
    [w EXCEPT !.loads = Append(@, [id |-> <<model.ID, model.SecondaryID>>,
                                   cover |-> model.CoverArtID,
                                   status |-> "running"])]

\* Invoking a load's cancellation handle.
CancelLoad(w, h) ==
    [w EXCEPT !.loads[h].status = IF @ = "running" THEN "cancelled" ELSE @]

\* Faulty variant: the load of the previous identity is left running.
BindItemNoCancel(w, model) ==
    IF ~NeedsUpdate(w.item, model)
    THEN w
    ELSE LET w1 == [w EXCEPT !.item = Update(@, model)]
             w2 == StartLoad(w1, model)
         IN  [w2 EXCEPT !.item.ImgLoadCancel = Ptr(Len(w2.loads))]

\* The grid binds a model to a recycled item: when the identity differs it
\* invokes ImgLoadCancel, applies the model and starts the load of its cover.
BindItem(w, model) ==
    IF ~NeedsUpdate(w.item, model)
    THEN w
    ELSE LET w0 == IF w.item.ImgLoadCancel # Nil
                   THEN [CancelLoad(w, Deref(w.item.ImgLoadCancel))
                             EXCEPT !.item.ImgLoadCancel = Nil]
                   ELSE w
             w1 == [w0 EXCEPT !.item = Update(@, model)]
             w2 == StartLoad(w1, model)
         IN  [w2 EXCEPT !.item.ImgLoadCancel = Ptr(Len(w2.loads))]

\* A load completes: unless it was cancelled, its image is set on the cover.
ImageLoaded(w, h) ==
    IF w.loads[h].status = "running"
    THEN [w EXCEPT !.loads[h].status = "done",
                   !.item.Cover = SetImage(@, [id |-> w.loads[h].id,
                                               cover |-> w.loads[h].cover])]
    ELSE [w EXCEPT !.loads[h].status = "dropped"]

GridIdle == loads = <<>>

GridCommit(w, ev) ==
    /\ item' = w.item
    /\ loads' = w.loads
    /\ lastEv' = ev
    /\ UNCHANGED offGrid

DoBindItem ==
    /\ Len(loads) < MaxLoads
    /\ \E m \in Models :
           GridCommit(BindItem(GridWorld, m),
                      [ItemEv("BindItem", center, <<>>, m)
                           EXCEPT !.needed = NeedsUpdate(item, m)])

DoImageLoaded ==
    /\ \E h \in 1..Len(loads) :
           /\ loads[h].status \in {"running", "cancelled"}
           /\ GridCommit(ImageLoaded(GridWorld, h),
                         ItemEv("ImageLoaded", center, <<>>, NoModel))

GridNext ==
    \/ DoBindItem
    \/ DoImageLoaded

\* ============================================================== MainWindow
\* mw holds the main window's collaborators as one record:
\*   nav, curPage, history     the BrowsingPane: navigation buttons enabled,
\*                             the page shown, the pages to go back to
\*   startupPage, lastChecked  Config.Application.StartupPage / LastCheckedVersion
\*   found, callback           the UpdateChecker: VersionTagFound(), and whether
\*                             OnUpdatedVersionFound is registered
\*   modals                    the new-version dialogs queued with the Controller
\*   goroutines                manual update checks started and not yet run
\*   prompted                  a login prompt is pending
\*   lastConn, recorded        history: the last of connect / logout, and the
\*                             tags LastCheckedVersion has held
\*   op, arg, thread, trace    the handler that ran last, on which thread, and
\*                             the calls it made, in order
MaxHistory == 1
MaxModals == 1
MaxChecks == 1

\* app.VersionTag(), and the tags a version check can come back with ("" when
\* the check failed).
VersionTag == "v1"
FoundTags == {"", "v1", "v2", "v3"}
StartupPages == {"Favorites", "Playlists", "Albums"}
\* Routes of the navigation buttons taken as inputs.
NavRoutes == {"NowPlaying", "Albums"}

MwEv(ev, arg, thread) == [ev |-> ev, arg |-> arg, thread |-> thread]
Call(m, ev, arg) == [m EXCEPT !.trace = Append(@, MwEv(ev, arg, m.thread))]

\* --- BrowsingPane, Router, Controller
EnableNavigationButtons(m) ==
    [Call(m, "EnableNavigationButtons", "") EXCEPT !.nav = TRUE]

DisableNavigationButtons(m) ==
    [Call(m, "DisableNavigationButtons", "") EXCEPT !.nav = FALSE]

\* SetPage(p): the page shown until now, if any, goes to the history.
SetPage(m, p) ==
    [Call(m, "SetPage", IF p = Nil THEN "nil" ELSE Deref(p)) EXCEPT
        !.history = IF m.curPage # Nil THEN Append(@, Deref(m.curPage)) ELSE @,
        !.curPage = p]

ClearHistory(m) == [Call(m, "ClearHistory", "") EXCEPT !.history = <<>>]

NavigateTo(m, route) == SetPage(Call(m, "NavigateTo", route), Ptr(route))

PromptForLoginAndConnect(m) ==
    [Call(m, "PromptForLoginAndConnect", "") EXCEPT !.prompted = TRUE]

\* QueueShowModalFunc(f): f is queued, to show its dialog on the UI thread.
QueueShowModalFunc(m, tag) ==
    [Call(m, "QueueShowModalFunc", tag) EXCEPT !.modals = Append(@, tag)]

\* dialog.ShowInformation, called on the thread of its caller.
ShowInformation(m) == Call(m, "ShowInformation", "")

\* --- MainWindow
StartupPage(m) ==
    CASE m.startupPage = "Favorites" -> "Favorites"
      [] m.startupPage = "Playlists" -> "Playlists"
      [] OTHER -> "Albums"

ShowNewVersionDialog(m, versionTag) ==
    QueueShowModalFunc(Call(m, "ShowNewVersionDialog", versionTag), versionTag)

\* The dialog's callback, once the user has answered the dialog at the head
\* of the queue.
DialogAnswered(m, show) ==
    LET versionTag == Head(m.modals)
        m1 == IF show THEN Call(m, "OpenURL", versionTag) ELSE m
    IN  [m1 EXCEPT !.lastChecked = versionTag, !.modals = Tail(@)]

\* The callback registered for the periodic update check.
OnUpdatedVersionFound(m) ==
    LET t == m.found
        m1 == IF t # VersionTag THEN ShowNewVersionDialog(m, t) ELSE m
    IN  [m1 EXCEPT !.lastChecked = t]

\* Faulty variant: the found tag is not compared with LastCheckedVersion.
OnServerConnectedNoLastChecked(m) ==
    LET m1 == EnableNavigationButtons(m)
        m2 == NavigateTo(m1, StartupPage(m1))
        t == m2.found
        m3 == IF t # ""
              THEN [(IF t # VersionTag THEN ShowNewVersionDialog(m2, t) ELSE m2)
                        EXCEPT !.lastChecked = t]
              ELSE m2
    IN  [m3 EXCEPT !.callback = TRUE]

OnServerConnected(m) ==
    LET m1 == EnableNavigationButtons(m)
        m2 == NavigateTo(m1, StartupPage(m1))
        t == m2.found
        m3 == IF t # "" /\ t # m2.lastChecked
              THEN [(IF t # VersionTag THEN ShowNewVersionDialog(m2, t) ELSE m2)
                        EXCEPT !.lastChecked = t]
              ELSE m2
    IN  [m3 EXCEPT !.callback = TRUE]

\* Faulty variant: the history is cleared before the page is taken down.
OnLogoutClearFirst(m) ==
    LET m1 == DisableNavigationButtons(m)
        m2 == ClearHistory(m1)
        m3 == SetPage(m2, Nil)
    IN  PromptForLoginAndConnect(m3)

OnLogout(m) ==
    LET m1 == DisableNavigationButtons(m)
        m2 == SetPage(m1, Nil)
        m3 == ClearHistory(m2)
    IN  PromptForLoginAndConnect(m3)

\* The "Check for Updates" menu item: starts the goroutine.
CheckForUpdates(m) == [Call(m, "go", "") EXCEPT !.goroutines = @ + 1]

\* The goroutine's body, t being what CheckLatestVersionTag() returned.
CheckForUpdatesWork(m, t) ==
    LET m1 == [m EXCEPT !.goroutines = @ - 1]
    IN  IF t # "" /\ t # VersionTag
        THEN ShowNewVersionDialog(m1, t)
        ELSE ShowInformation(m1)

\* The UpdateChecker's periodic check, t being the latest tag it fetched: a
\* tag that differs from the last checked one is recorded as found and
\* reported through OnUpdatedVersionFound.
checkForUpdate(m, t) ==
    IF t # "" /\ t # m.lastChecked
    THEN LET m1 == [m EXCEPT !.found = t]
         IN  IF m1.callback THEN OnUpdatedVersionFound(m1) ELSE m1
    ELSE m

\* NewMainWindow, with the configuration it is given.
NewMainWindow(startup, checked) ==
    DisableNavigationButtons(
        [nav |-> TRUE, curPage |-> Nil, history |-> <<>>,
         startupPage |-> startup, lastChecked |-> checked,
         found |-> "", callback |-> FALSE, modals |-> <<>>, goroutines |-> 0,
         prompted |-> FALSE, lastConn |-> "none", recorded |-> {checked} \ {""},
         op |-> "NewMainWindow", arg |-> 0, thread |-> "ui", trace |-> <<>>])

\* ------------------------------------------------------ main window steps
MainInit == mw \in {NewMainWindow(s, c) : s \in StartupPages, c \in {"", "v1", "v2"}}
MainIdle == mw = NewMainWindow("Albums", "")

\* A handler starts on a thread, with an empty trace.
MainStart(op, arg, thread) ==
    [mw EXCEPT !.op = op, !.arg = arg, !.thread = thread, !.trace = <<>>]

MainCommit(m) ==
    /\ mw' = [m EXCEPT !.recorded = @ \cup ({m.lastChecked} \ {""})]
    /\ UNCHANGED offMain

CanNavigate == mw.curPage = Nil \/ Len(mw.history) < MaxHistory
CanShow == Len(mw.modals) < MaxModals

\* The server manager reports a connection.
DoServerConnected ==
    /\ CanNavigate /\ CanShow
    /\ MainCommit([OnServerConnected(MainStart("OnServerConnected", Len(mw.history), "ui"))
                       EXCEPT !.lastConn = "connect", !.prompted = FALSE])

\* The server manager reports a logout.
DoLogout ==
    /\ mw.modals = <<>>
    /\ MainCommit([OnLogout(MainStart("OnLogout",
                                      Len(mw.history) + (IF mw.curPage # Nil THEN 1 ELSE 0),
                                      "ui"))
                       EXCEPT !.lastConn = "logout"])

\* A navigation button is pressed.
DoNavigate ==
    /\ mw.nav /\ mw.modals = <<>> /\ CanNavigate
    /\ \E r \in NavRoutes :
           /\ mw.curPage # Ptr(r)
           /\ MainCommit(NavigateTo(MainStart("NavigateTo", 0, "ui"), r))

\* The update checker's timer fires, on the checker's own goroutine.
DoPeriodicCheck ==
    /\ CanShow
    /\ \E t \in FoundTags :
           MainCommit(checkForUpdate(MainStart("checkForUpdate", 0, "checker"), t))

\* "Check for Updates" is chosen in the settings menu.
DoCheckForUpdates ==
    /\ mw.modals = <<>>
    /\ mw.goroutines < MaxChecks
    /\ MainCommit(CheckForUpdates(MainStart("CheckForUpdates", 0, "ui")))

\* The goroutine started by "Check for Updates" runs.
DoCheckForUpdatesWork ==
    /\ mw.goroutines > 0 /\ CanShow
    /\ \E t \in FoundTags :
           MainCommit(CheckForUpdatesWork(MainStart("CheckForUpdatesWork", 0, "goroutine"), t))

\* The user answers the new-version dialog.
DoDialogAnswered ==
    /\ mw.modals # <<>>
    /\ \E show \in BOOLEAN :
           MainCommit(DialogAnswered(MainStart("DialogAnswered", 0, "ui"), show))

MainNext ==
    \/ DoServerConnected
    \/ DoLogout
    \/ DoNavigate
    \/ DoPeriodicCheck
    \/ DoCheckForUpdates
    \/ DoCheckForUpdatesWork
    \/ DoDialogAnswered

\* ========================================================= system tray menu
\* player: the PlaybackManager's volume, the last tray entry chosen (op) and
\* the volume it read (prev).
\* The range of the PlaybackManager's volume, in percent.
MaxVolume == 100

\* int(float64(vol) * 0.1): the conversion to int truncates toward zero.  The
\* float64 nearest to 0.1 lies above 1/10 by less than 10^-17, so for the
\* integers of the range the rounded product is never below vol/10 and never
\* reaches the next integer: the result is the integer part of vol/10.
TruncTenth(vol) == IF vol >= 0 THEN vol \div 10 ELSE -((-vol) \div 10)

Volume(p) == p.volume

\* PlaybackManager.SetVolume clamps the requested value to the range.
SetVolume(p, vol) ==
    [p EXCEPT !.volume = IF vol < 0 THEN 0
                         ELSE IF vol > MaxVolume THEN MaxVolume ELSE vol]

\* The tray entry "Volume +10%".
VolumeUp(p) ==
    LET vol == Volume(p)
        vol2 == vol + TruncTenth(vol)
    IN  SetVolume(p, vol2)

\* The tray entry "Volume -10%".
VolumeDown(p) ==
    LET vol == Volume(p)
        vol2 == vol - TruncTenth(vol)
    IN  SetVolume(p, vol2)

NoPlayer == [volume |-> 0, op |-> "init", prev |-> 0]
TrayIdle == player = NoPlayer

\* The volume is whatever the user last set it to with the volume slider.
TrayInit == \E v \in 0..MaxVolume : player = [NoPlayer EXCEPT !.volume = v]

DoVolumeUp ==
    /\ player' = [VolumeUp(player) EXCEPT !.op = "VolumeUp", !.prev = player.volume]
    /\ UNCHANGED offTray

DoVolumeDown ==
    /\ player' = [VolumeDown(player) EXCEPT !.op = "VolumeDown", !.prev = player.volume]
    /\ UNCHANGED offTray

TrayNext ==
    \/ DoVolumeUp
    \/ DoVolumeDown

\* ----------------------------------------------------------- specifications
vars == <<pageVars, itemVars, mainVars, gridVars, trayVars>>

\* The page lifecycle.
Init == PageInit /\ ItemIdle /\ MainIdle /\ GridIdle /\ TrayIdle
Next == PageNext
Spec == Init /\ [][Next]_vars

\* The grid item and its cover image.
InitItem == ItemInit /\ PageIdle /\ MainIdle /\ GridIdle /\ TrayIdle
SpecItem == InitItem /\ [][ItemNext]_vars

\* The main window.
InitMain == MainInit /\ PageIdle /\ ItemIdle /\ GridIdle /\ TrayIdle
SpecMain == InitMain /\ [][MainNext]_vars

\* The page lifecycle with the calls that reach a page object after its Save.
InitPool == PageInit /\ ItemIdle /\ MainIdle /\ GridIdle /\ TrayIdle
SpecPool == InitPool /\ [][PoolNext]_vars

\* The grid binding models to one of its items, and the image loads it starts.
InitGrid == GridIdle /\ ItemIdle /\ PageIdle /\ MainIdle /\ TrayIdle
SpecGrid == InitGrid /\ [][GridNext]_vars

\* The volume entries of the system tray menu.
InitTray == TrayInit /\ PageIdle /\ ItemIdle /\ MainIdle /\ GridIdle
SpecTray == InitTray /\ [][TrayNext]_vars

\* ================================================================== claims
Calls(tr, names) == SelectSeq(tr, LAMBDA e : e.ev \in names)
AdapterCalls(tr) == Calls(tr, {"Iter", "SearchIter"})
PageGrid == grids[page.grid]

\* C1: clearing an active search (entered from an empty search text, followed
\* only by further non-empty queries, Reloads and scrolling) resets the grid
\* from the state snapshotted just before the first query, calls neither Iter
\* nor SearchIter, and leaves the page such that Save() records the same
\* gridState, sort order, filter and empty searchText as just before the search.
C1_ClearRestoresPreSearch ==
    /\ (Live /\ page.searchText # "" /\ hist.clean) =>
           LET w == OnSearched(World, "")
               resets == Calls(w.trace, {"ResetFromState"})
           IN  /\ AdapterCalls(w.trace) = <<>>
               /\ Calls(w.trace, {"Reset"}) = <<>>
               /\ Len(resets) = 1
               /\ resets[1].state = Deref(hist.pre).gridState
               /\ SaveView(w) = Deref(hist.pre)
    /\ (Live /\ lastOp.op = "OnSearched" /\ lastOp.arg = "" /\ lastOp.prev # ""
             /\ hist.clean) =>
           /\ SaveView(World) = Deref(hist.pre)
           /\ page.searchText = ""

C1_Witness ==
    /\ Live /\ lastOp.op = "OnSearched" /\ lastOp.arg = "" /\ lastOp.prev # ""
    /\ hist.clean
    /\ PageGrid # <<>> /\ PageGrid[1].scroll > 0
    /\ PageGrid[1].iter.kind = "Iter"
    /\ SaveView(World) = Deref(hist.pre)

\* C2: an OnSearched or Reload step takes the snapshot gridState from the
\* grid exactly when the search text was empty and the query is not; a further
\* non-empty query during a search, a Reload, and a clearing leave it unchanged.
C2_SnapshotOnlyOnSearchEntry ==
    [][ lastOp'.op \in {"OnSearched", "Reload"} =>
          LET tr == IF lastOp'.op = "Reload" THEN Reload(World).trace
                    ELSE OnSearched(World, lastOp'.arg).trace
              entering == lastOp'.op = "OnSearched" /\ lastOp'.arg # ""
                          /\ page.searchText = ""
          IN  IF entering
              THEN /\ page'.gridState = Ptr(PageGrid)
                   /\ Len(Calls(tr, {"SaveToState"})) = 1
              ELSE /\ page'.gridState = page.gridState
                   /\ Calls(tr, {"SaveToState"}) = <<>> ]_vars

C2_Witness ==
    /\ Live /\ lastOp.op = "OnSearched"
    /\ lastOp.arg \in Queries /\ lastOp.prev \in Queries /\ lastOp.arg # lastOp.prev
    /\ hist.clean
    /\ page.gridState = Deref(hist.pre).gridState
    /\ Deref(page.gridState) # <<>>
    /\ Deref(page.gridState)[1].iter.kind = "Iter"
    /\ Deref(page.gridState)[1].scroll > 0

\* The adapter request a Reload would issue now.
ReloadRequest == AdapterCalls(Reload(World).trace)

\* C3: a Reload issues Iter(sort order, filter) when the search text is empty
\* and SearchIter(search text, filter) otherwise; a Reload that follows it
\* issues the same request and changes no field of the page nor the grid.
C3_ReloadIdempotent ==
    [][ lastOp'.op = "Reload" =>
          /\ ReloadRequest =
                 << IF page.searchText = ""
                    THEN Ev("Iter", 0, getSortOrder(page), Ptr(getFilter(page)), Nil)
                    ELSE Ev("SearchIter", 0, page.searchText, Ptr(getFilter(page)), Nil) >>
          /\ ReloadRequest' = ReloadRequest
          /\ Reload(World)'.page = page'
          /\ Reload(World)'.grids = grids'
          /\ [page' EXCEPT !.grid = 0] = [page EXCEPT !.grid = 0]
          /\ page'.grid = page.grid ]_vars

C3_Witness ==
    /\ Live /\ lastOp.op = "Reload" /\ page.searchText # ""
    /\ page.gridState # Nil
    /\ ReloadRequest = <<Ev("SearchIter", 0, page.searchText, Ptr(getFilter(page)), Nil)>>
    /\ Reload(World).page = page
    /\ Reload(World).grids = grids

\* C4: Restore calls neither Iter nor SearchIter, populates the grid from the
\* saved searchGridState when the saved search text is non-empty and from the
\* saved gridState otherwise, and the restored page carries the saved adapter,
\* filter, searchText, gridState and searchGridState, with a pooled grid and
\* with a newly allocated one.
C4_RestoreFromSavedState ==
    [][ lastOp'.op = "Restore" =>
          LET s == Deref(saved)
              state == IF s.searchText # "" THEN s.searchGridState ELSE s.gridState
          IN  /\ \A ob \in ObtainResults(pool) :
                     LET tr == Restore(World, ob).trace IN
                     /\ AdapterCalls(tr) = <<>>
                     /\ Calls(tr, {"Reset", "NewGridView"}) = <<>>
                     /\ IF ob # 0
                        THEN Calls(tr, {"ResetFromState", "NewGridViewFromState"})
                                 = <<Ev("ResetFromState", ob, "", Nil, state)>>
                        ELSE Calls(tr, {"ResetFromState", "NewGridViewFromState"})
                                 = <<Ev("NewGridViewFromState", Len(grids) + 1, "", Nil, state)>>
              /\ state # Nil
              /\ grids'[page'.grid] = Deref(state)
              /\ page'.status = "live"
              /\ page'.adapter = s.adapter
              /\ page'.filter = s.filter
              /\ page'.searchText = s.searchText
              /\ page'.gridState = s.gridState
              /\ page'.searchGridState = s.searchGridState
              /\ (lastOp'.arg = "pool") = (pool # {})
              /\ IF lastOp'.arg = "pool"
                 THEN page'.grid \in pool /\ page'.grid \notin pool'
                 ELSE page'.grid = Len(grids) + 1 ]_vars

C4_Witness ==
    /\ Live /\ lastOp = Op("Restore", "new", "")
    /\ page.searchText # ""
    /\ page.searchGridState # Nil
    /\ PageGrid = Deref(page.searchGridState)
    /\ PageGrid # <<>> /\ PageGrid[1].scroll > 0
    /\ PageGrid # Deref(page.gridState)

\* C5: Save writes the state the grid had when Save was called into the
\* active slot of the saved page (gridState for an empty search text,
\* searchGridState otherwise) and copies the other slot from the page; it
\* captures the state, then clears the grid, then releases it to the pool.
C5_SaveActiveSlot ==
    [][ lastOp'.op = "Save" =>
          LET st == Ptr(PageGrid)
              sa == Deref(saved')
              tr == Calls(Save(World).trace, {"SaveToState", "Clear", "Release"})
          IN  /\ saved' # Nil
              /\ IF page.searchText = ""
                 THEN sa.gridState = st /\ sa.searchGridState = page.searchGridState
                 ELSE sa.searchGridState = st /\ sa.gridState = page.gridState
              /\ tr = << Ev("SaveToState", page.grid, "", Nil, st),
                         Ev("Clear", page.grid, "", Nil, Nil),
                         Ev("Release", page.grid, "", Nil, Nil) >>
              /\ grids'[page.grid] = <<>>
              /\ page.grid \notin pool /\ page.grid \in pool'
              /\ page'.status = "saved" ]_vars

C5_Witness ==
    /\ page.status = "saved" /\ lastOp.op = "Save" /\ lastOp.prev # ""
    /\ saved # Nil
    /\ Deref(saved).searchGridState # Nil
    /\ Deref(Deref(saved).searchGridState) # <<>>
    /\ Deref(Deref(saved).searchGridState)[1].scroll > 0
    /\ Deref(saved).gridState = page.gridState
    /\ page.grid \in pool /\ PageGrid = <<>>

\* C6: on a live page whose adapter is sortable the sort selector exists and
\* is disabled exactly when the search text is non-empty.
C6_SortDisabledIffSearching ==
    (Live /\ AdapterOf(page.adapter).sortable) =>
        /\ page.sortOrder # Nil
        /\ Deref(page.sortOrder).disabled = (page.searchText # "")

C6_Witness ==
    /\ Live /\ lastOp.op = "Restore" /\ page.searchText # ""
    /\ page.sortOrder # Nil /\ Deref(page.sortOrder).disabled

\* C7: a sort order change happens only on a page with a sortable adapter; it
\* first persists the newly selected order with SaveSortOrder, then resets the
\* grid with Iter(newly selected order, current filter).
C7_SortChangePersistsThenReloads ==
    [][ lastOp'.op = "SortOrderChanged" =>
          LET order == lastOp'.arg
              w == [World EXCEPT !.page.sortOrder = Ptr([Deref(@) EXCEPT !.Selected = order])]
              tr == onSortOrderChanged(w, order).trace
              fl == getFilter(page)
          IN  /\ AdapterOf(page.adapter).sortable
              /\ tr = << Ev("SaveSortOrder", 0, order, Nil, Nil),
                         Ev("Iter", 0, order, Ptr(fl), Nil),
                         Ev("Reset", page.grid, order, Ptr(fl), Nil) >>
              /\ adapterSort' = order
              /\ getSortOrder(page') = order
              /\ grids'[page.grid] = Content(IterReq("Iter", order, fl)) ]_vars

C7_Witness ==
    /\ Live /\ lastOp.op = "SortOrderChanged" /\ lastOp.arg = "Recently Added"
    /\ adapterSort = "Recently Added"
    /\ page.filter # Nil /\ Deref(page.filter).Favorites
    /\ PageGrid = Content(IterReq("Iter", "Recently Added", Deref(page.filter)))

\* C8: a live page has a filter button exactly when its filter is non-nil,
\* which is exactly when its adapter's Filter() is non-nil (a zero-valued
\* filter included), on a constructed page and on a restored one.
C8_FilterButtonIffFilter ==
    Live =>
        /\ (page.filterBtn # Nil) = (page.filter # Nil)
        /\ (page.filterBtn # Nil) = (AdapterOf(page.adapter).filter # Nil)

C8_Witness ==
    /\ Live /\ lastOp.op = "Restore"
    /\ page.filter = Ptr(ZeroFilter)
    /\ page.filterBtn # Nil

\* C9: NeedsUpdate(model) is false exactly when the model's (ID, SecondaryID)
\* is the item's (itemID, secondaryID), whatever its Name, CoverArtID and
\* Secondary; it is false for the model just applied by Update.
C9_NeedsUpdateIsIdentity ==
    /\ \A m \in Models :
           NeedsUpdate(item, m) =
               ~(m.ID = item.itemID /\ m.SecondaryID = item.secondaryID)
    /\ lastEv.op = "Update" =>
           /\ ~NeedsUpdate(item, lastEv.model)
           /\ \A m \in Models :
                  (m.ID = lastEv.model.ID /\ m.SecondaryID = lastEv.model.SecondaryID)
                      => ~NeedsUpdate(item, m)
           /\ \A m \in Models :
                  (m.ID # lastEv.model.ID \/ m.SecondaryID # lastEv.model.SecondaryID)
                      => NeedsUpdate(item, m)

C9_Witness ==
    /\ lastEv.op = "Update"
    /\ item.secondaryID # ""
    /\ \E m \in Models :
           /\ m.Name # item.primaryText /\ m.Secondary # item.secondaryText
           /\ m.CoverArtID # lastEv.model.CoverArtID
           /\ ~NeedsUpdate(item, m)
    /\ \E m \in Models : m.ID = item.itemID /\ NeedsUpdate(item, m)

\* The squared distance of a point from the centre, in half pixels.
Dist2(pt) == (pt.X - center.X) * (pt.X - center.X) + (pt.Y - center.Y) * (pt.Y - center.Y)
\* distance <= size / 2 pixels, for a button size in pixels
WithinButton(pt, size) == Dist2(pt) <= size * size
BetweenRadii(pt) == ~WithinButton(pt, playBtnSize) /\ WithinButton(pt, playBtnHoveredSize)

\* C10: a tap is inside the play button exactly when its squared distance from
\* the centre is at most the squared half of the button's laid-out size, and a
\* pointer move exactly when it is at most the squared half of the button's
\* minimum size (60, or 65 once hover has grown it): the boundary is inside,
\* and a point between the two radii is outside at size 60 and inside at 65.
C10_HitTest ==
    [][ /\ lastEv'.op = "Tapped" =>
              /\ (lastEv'.cb = <<"OnPlay">>) = WithinButton(lastEv'.pt, item.Cover.playbtnSize)
              /\ BetweenRadii(lastEv'.pt) =>
                     (lastEv'.cb = <<"OnPlay">>) = (item.Cover.playbtnSize = playBtnHoveredSize)
        /\ lastEv'.op = "MouseMoved" =>
              /\ item'.Cover.mouseInsideBtn =
                     WithinButton(lastEv'.pt, item.Cover.playbtnMinSize)
              /\ BetweenRadii(lastEv'.pt) =>
                     item'.Cover.mouseInsideBtn
                         = (item.Cover.playbtnMinSize = playBtnHoveredSize)
        /\ item.Cover.playbtnSize \in {playBtnSize, playBtnHoveredSize}
        /\ item.Cover.playbtnMinSize \in {playBtnSize, playBtnHoveredSize} ]_vars

C10_Witness ==
    /\ lastEv.op = "Tapped" /\ lastEv.cb = <<"OnPlay">>
    /\ BetweenRadii(lastEv.pt)
    /\ Dist2(lastEv.pt) = playBtnHoveredSize * playBtnHoveredSize
    /\ item.Cover.playbtnSize = playBtnHoveredSize
    /\ item.Cover.mouseInsideBtn

\* C11: every input on the cover invokes at most one of the three callbacks:
\* a primary tap inside the play button's radius invokes OnPlay alone, a primary
\* tap outside it OnShowPage alone, a secondary tap OnShowContextMenu alone,
\* wherever it lands; pointer moves invoke none.
C11_OneOutcomePerInput ==
    /\ Len(lastEv.cb) <= 1
    /\ lastEv.op = "Tapped" =>
           lastEv.cb = IF WithinButton(lastEv.pt, item.Cover.playbtnSize)
                       THEN <<"OnPlay">> ELSE <<"OnShowPage">>
    /\ lastEv.op = "TappedSecondary" => lastEv.cb = <<"OnShowContextMenu">>
    /\ lastEv.op \notin {"Tapped", "TappedSecondary"} => lastEv.cb = <<>>

C11_Witness ==
    /\ lastEv.op = "TappedSecondary"
    /\ WithinButton(lastEv.pt, item.Cover.playbtnSize)
    /\ lastEv.cb = <<"OnShowContextMenu">>
    /\ ~item.Cover.playbtnHidden


\* The names of the calls of a trace, in order.
Names(tr) == [i \in 1..Len(tr) |-> tr[i].ev]
\* The tags a handler's trace asks a new-version dialog for.
Prompts(tr) == {tr[i].arg : i \in {j \in 1..Len(tr) : tr[j].ev = "ShowNewVersionDialog"}}
AutomaticChecks == {"OnServerConnected", "checkForUpdate"}

\* C12: navigation is disabled by construction; a connect enables it and then
\* navigates to the startup route; a logout disables it, sets the page to nil,
\* clears the history and prompts for login, in that order. Navigation is
\* enabled exactly when the last of connect / logout was a connect, and from a
\* logout to the next connect there is no page and no history entry.
C12_ConnectLogoutLifecycle ==
    /\ mw.op = "NewMainWindow" =>
           /\ ~mw.nav
           /\ Names(mw.trace) = <<"DisableNavigationButtons">>
    /\ mw.op = "OnServerConnected" =>
           /\ Len(mw.trace) >= 3
           /\ SubSeq(mw.trace, 1, 3) =
                  << MwEv("EnableNavigationButtons", "", "ui"),
                     MwEv("NavigateTo", StartupPage(mw), "ui"),
                     MwEv("SetPage", StartupPage(mw), "ui") >>
           /\ mw.nav
           /\ mw.curPage = Ptr(StartupPage(mw))
    /\ mw.op = "OnLogout" =>
           /\ Names(mw.trace) = << "DisableNavigationButtons", "SetPage",
                                   "ClearHistory", "PromptForLoginAndConnect" >>
           /\ mw.trace[2].arg = "nil"
           /\ mw.prompted
    /\ mw.nav = (mw.lastConn = "connect")
    /\ mw.lastConn = "logout" => (mw.curPage = Nil /\ mw.history = <<>>)

C12_Witness ==
    /\ mw.op = "OnLogout" /\ mw.arg = 2
    /\ mw.lastConn = "logout" /\ ~mw.nav
    /\ mw.curPage = Nil /\ mw.history = <<>>
    /\ mw.prompted

\* C13 (as amended): an automatic check (on connect, or periodic) asks for the
\* new-version dialog only for a tag that is not empty, is not the running
\* version's tag and is not the tag LastCheckedVersion holds at that moment,
\* and it then stores that tag; a connect with the found tag already stored
\* asks for no dialog.
C13_NoPromptForStoredTag ==
    [][ mw'.op \in AutomaticChecks =>
          /\ \A t \in Prompts(mw'.trace) :
                 /\ t # "" /\ t # VersionTag
                 /\ t # mw.lastChecked
                 /\ mw'.lastChecked = t
          /\ (mw'.op = "OnServerConnected" /\ mw.found = mw.lastChecked)
                 => (Prompts(mw'.trace) = {} /\ mw'.modals = mw.modals) ]_vars

C13_Witness ==
    /\ mw.op = "OnServerConnected"
    /\ mw.found = "v2" /\ mw.lastChecked = "v2"
    /\ mw.lastConn = "connect"
    /\ Prompts(mw.trace) = {}
    /\ mw.modals = <<>>
    /\ mw.recorded = {"v2"}

\* C13 (as claimed): once a tag has been stored in LastCheckedVersion, no
\* automatic check asks for the new-version dialog for that tag again, and none
\* asks for it for the running version's tag.
C13_NeverPromptsRecordedTag ==
    [][ mw'.op \in AutomaticChecks =>
          \A t \in Prompts(mw'.trace) : t \notin mw.recorded /\ t # VersionTag ]_vars

\* Calls that change what the window shows.
UiCalls ==
    { "ShowInformation", "ShowCustomConfirm", "EnableNavigationButtons",
      "DisableNavigationButtons", "SetPage", "ClearHistory",
      "PromptForLoginAndConnect", "OpenURL" }

\* C14: whatever the manual update check comes back with, the goroutine that
\* ran it makes no call that shows a dialog or changes a widget itself; it only
\* queues the dialog for the UI thread.
C14_ManualCheckHandsOffToUI ==
    mw.op = "CheckForUpdatesWork" =>
        \A i \in 1..Len(mw.trace) :
            mw.trace[i].thread = "goroutine" => mw.trace[i].ev \notin UiCalls


\* C15 (as amended): Update(model) applies the model whether or not its
\* identity differs from the item's: it sets itemID, secondaryID, both label
\* texts and the secondary label's Disabled, and resets the play button, and
\* leaves the button's laid-out size alone.
C15_UpdateAlwaysApplies ==
    [][ lastEv'.op = "Update" =>
          LET m == lastEv'.model IN
          /\ item'.itemID = m.ID /\ item'.secondaryID = m.SecondaryID
          /\ item'.primaryText = m.Name /\ item'.secondaryText = m.Secondary
          /\ item'.secondaryDisabled = (m.SecondaryID = "")
          /\ item'.Cover.playbtnMinSize = playBtnSize
          /\ ~item'.Cover.mouseInsideBtn /\ item'.Cover.playbtnHidden
          /\ item'.Cover.playbtnSize = item.Cover.playbtnSize
          /\ lastEv'.needed = ~(m.ID = item.itemID /\ m.SecondaryID = item.secondaryID) ]_vars

C15_Witness ==
    /\ lastEv.op = "Update" /\ ~lastEv.needed
    /\ item.itemID = "b" /\ item.secondaryID = "x"
    /\ item.primaryText = "n2" /\ item.secondaryText = "s2"
    /\ lastEv.model.Name = "n2" /\ lastEv.model.Secondary = "s2"
    /\ item.Cover.playbtnHidden /\ pointer

\* C15 (as claimed): an Update with a model whose (ID, SecondaryID) is the
\* item's leaves the item unchanged: no label text is set, the play button is
\* not reset.
C15_UpdateOnlyWhenIdentityDiffers ==
    [][ (lastEv'.op = "Update" /\ ~NeedsUpdate(item, lastEv'.model)) => item' = item ]_vars

\* C20: the play button has the hovered size (65) exactly when mouseInsideBtn
\* holds, after any sequence of MouseIn, MouseMoved, MouseOut and
\* ResetPlayButton.
C20_HoveredSizeIffInside ==
    (item.Cover.playbtnMinSize = playBtnHoveredSize) = item.Cover.mouseInsideBtn


\* C17: on a filterable page in browse mode, after construction, a Reload, a
\* filter change, a sort change or the clearing of an active search, the grid
\* shows the content of Iter(current sort order, current filter).
C17_GridFollowsCurrentFilter ==
    ( /\ Live /\ page.filter # Nil /\ page.searchText = ""
      /\ \/ lastOp.op \in {"New", "Reload", "FilterChanged", "SortOrderChanged"}
         \/ (lastOp.op = "OnSearched" /\ lastOp.arg = "" /\ lastOp.prev # "") )
    => /\ PageGrid # <<>>
       /\ PageGrid[1].iter = IterReq("Iter", getSortOrder(page), getFilter(page))

\* C18: on a live page and in a saved one, an empty search text comes with a
\* nil searchGridState and a non-empty one with a non-nil gridState (and, once
\* saved, a non-nil searchGridState); clearing an active search resets the grid
\* from a non-nil state.
C18_StateSlotsMatchSearchText ==
    /\ Live =>
           /\ page.searchText = "" => page.searchGridState = Nil
           /\ page.searchText # "" =>
                  /\ page.gridState # Nil
                  /\ \A e \in {OnSearched(World, "").trace[i] :
                                   i \in 1..Len(OnSearched(World, "").trace)} :
                         e.ev = "ResetFromState" => e.state # Nil
    /\ saved # Nil =>
           /\ Deref(saved).searchText = "" => Deref(saved).searchGridState = Nil
           /\ Deref(saved).gridState # Nil
           /\ Deref(saved).searchText # "" => Deref(saved).searchGridState # Nil

C18_Witness ==
    /\ Live /\ lastOp.op = "OnSearched" /\ lastOp.arg = "" /\ lastOp.prev # ""
    /\ ~hist.clean
    /\ page.searchGridState = Nil
    /\ page.gridState # Nil
    /\ PageGrid = Deref(page.gridState)
    /\ PageGrid # <<>> /\ PageGrid[1].scroll > 0

\* C19: the sort selector of a restored page shows the sort order recorded in
\* the saved page, whatever the adapter's persisted order is by then.
C19_RestoreShowsSavedSortOrder ==
    [][ (lastOp'.op = "Restore" /\ AdapterOf(Deref(saved).adapter).sortable) =>
          getSortOrder(page') = Deref(saved).sortOrder ]_vars


\* The identity the item shows.
Identity == <<item.itemID, item.secondaryID>>

\* C16: when the grid binds a model of another identity to the item, the
\* cancellation handle of the load started for the previous identity is
\* invoked; the only load that can still deliver is the one ImgLoadCancel
\* refers to, started for the identity the item shows; and a load that
\* completes sets the cover only to an image of that identity.
C16_StaleLoadCancelled ==
    [][ /\ (lastEv'.op = "BindItem" /\ lastEv'.needed /\ item.ImgLoadCancel # Nil) =>
               /\ loads'[Deref(item.ImgLoadCancel)].status # "running"
               /\ item'.ImgLoadCancel # item.ImgLoadCancel
        /\ \A h \in 1..Len(loads') :
               loads'[h].status = "running" =>
                   /\ item'.ImgLoadCancel = Ptr(h)
                   /\ loads'[h].id = Identity'
        /\ lastEv'.op = "ImageLoaded" =>
               \/ item'.Cover.image = item.Cover.image
               \/ item'.Cover.image.id = Identity ]_vars

C16_Witness ==
    /\ lastEv.op = "ImageLoaded"
    /\ \E h \in 1..Len(loads) :
           /\ loads[h].status = "dropped"
           /\ loads[h].id # Identity
           /\ item.Cover.image.id # loads[h].id
    /\ item.ImgLoadCancel # Nil
    /\ loads[Deref(item.ImgLoadCancel)].status = "running"


\* C21: every grid is in the pool or attached to exactly one live page, never
\* both and never to two; and a page that has been saved does not operate on
\* the grid it released: no Reload or OnSearched on it changes a grid that
\* another page now holds.
C21_SavedPageLeavesGridAlone ==
    [][ /\ pool' \cap others' = {}
        /\ (page'.status = "live" => page'.grid \notin pool' \cup others')
        /\ lastOp'.op \in {"ReloadSaved", "OnSearchedSaved"} =>
               \A g \in others : grids'[g] = grids[g] ]_vars


\* C22: "Volume +10%" leaves the volume strictly higher whenever it was below
\* the maximum, and "Volume -10%" strictly lower whenever it was above zero.
C22_VolumeNudgeStrict ==
    /\ (player.op = "VolumeUp" /\ player.prev < MaxVolume) =>
           player.volume > player.prev
    /\ (player.op = "VolumeDown" /\ player.prev > 0) =>
           player.volume < player.prev

=============================================================================
